---- MODULE Spec2Model ----
(***************************************************************************)
(* Model of the command-line chat client: the response streamer            *)
(* (groq_client.stream_response) with the generator protocol between it    *)
(* and its consumer, the message store (chat_db) and the ask command with  *)
(* its streaming loop (app.ask, app.process_stream).                       *)
(*                                                                         *)
(* Spec and SpecWindow run the streamer alone, SpecClient the three entry  *)
(* points of the client module, SpecStore the operations of the store in   *)
(* any order, SpecAsk one run of the ask command, SpecAskContext the ask   *)
(* command over a store with earlier records, SpecInteractive the          *)
(* interactive session (interactive.run_interactive).                      *)
(*                                                                         *)
(* A text is a sequence of characters; the characters are "a" (any         *)
(* non-whitespace character) and " " (whitespace).  A message is a record  *)
(* [role, content]; the content of an input message is the number of its   *)
(* position in the caller's list, so that loss, duplication and reordering *)
(* of messages are visible.  The fixed system instruction has content 0.   *)
(***************************************************************************)
EXTENDS Integers, Sequences, FiniteSets, TLC

VARIABLES
    \* stream_response (groq_client.py)
    messages,     \* the caller's message list (argument of stream_response)
    chunk_size,   \* argument chunk_size
    on_chunk,     \* TRUE iff a callback is supplied
    request,      \* the messages passed to completions.create (<<>>: none yet)
    buffer,       \* local buffer: sequence of fragments
    word_count,   \* local word_count
    pc,           \* position of the generator
    events,       \* events yielded so far, in order
    calls,        \* callback invocations so far, in order
    received,     \* fragments appended to the buffer so far, in order
    stream_pos,   \* number of items the completion stream has delivered
    api_raised,   \* the completion API raised (at create or while iterating)
    propagated,   \* an exception left the generator towards its consumer
    \* the message store (chat_db.py)
    table,        \* the rows of the messages table, in insertion order
    next_id,      \* the next value of the id sequence
    clock,        \* the latest value datetime.now() has returned
    last_op,      \* the latest store operation: arguments, outcome, result
    session,      \* what that operation did with its session, in order
    \* ask and process_stream (app.py)
    ask_pc,           \* position of the ask command
    confirm_continue, \* CONFIG['confirm_continue']
    full_response,    \* process_stream: full_response
    current_chunk,    \* process_stream: current_chunk
    seen,             \* process_stream: number of events taken from the stream
    prompts,          \* the confirmation prompts shown: event index and answer
    ps_result,        \* what process_stream returned
    \* the other entry points of the client module (groq_client.py)
    client,           \* the entry point called, and whether it raised
    \* run_interactive (interactive.py)
    loop_pc,          \* position of the interactive loop
    loop_end          \* what ended the interactive session

streamVars == << messages, chunk_size, on_chunk, request, buffer, word_count,
                 pc, events, calls, received, stream_pos, api_raised,
                 propagated >>

storeVars == << table, next_id, clock, last_op, session >>

askVars == << ask_pc, confirm_continue, full_response, current_chunk, seen,
              prompts, ps_result >>

outerVars == << client, loop_pc, loop_end >>

vars == << streamVars, storeVars, askVars, outerVars >>

(***************************************************************************)
(* Bounds                                                                  *)
(***************************************************************************)
MaxFrags == 3       \* items delivered by one completion stream
MaxChunk == 3       \* chunk sizes 1..MaxChunk (and the default one)
MaxMsgs == 26       \* length of the caller's list in the windowing inputs
MaxSystem == 3      \* system-role messages in the windowing inputs
MaxStreamMsgs == 1  \* length of the caller's list in the streaming inputs
MaxRows == 3        \* rows ever inserted into the messages table
MaxTies == 2        \* inserts of a table that found the clock not advanced

(***************************************************************************)
(* Program constants                                                       *)
(***************************************************************************)
WindowLimit == 21        \* if len(messages) > 21
RecentCount == 20        \* non_system_msgs[-20:]
DefaultChunkSize == 30   \* chunk_size: int = 30
TokenDivisor == 4        \* len(text) // 4
DefaultLimit == 100      \* limit if limit and limit > 0 else 100
PauseFactor == 3         \* int(CONFIG['max_chunk_size']) * 3
AskLimit == 20           \* get_all_messages(limit=20, ...)
HistoryLimit == 40       \* history = history[-40:]

SYSTEM_PROMPT == [role |-> "system", content |-> 0]

(***************************************************************************)
(* Texts                                                                   *)
(***************************************************************************)
Empty == << >>
IsSpace(c) == c = " "

\* len(text.split()): the number of maximal runs of non-whitespace characters
WordCount(text) ==
    Cardinality({ i \in 1..Len(text) :
                    /\ ~IsSpace(text[i])
                    /\ (i = 1 \/ IsSpace(text[i - 1])) })

RECURSIVE Join(_)
\* ''.join(parts)
Join(parts) ==
    IF parts = << >> THEN Empty ELSE Head(parts) \o Join(Tail(parts))

TokensRoundedUp(text) == (Len(text) + TokenDivisor - 1) \div TokenDivisor

\* len(text) // 4
Tokens(text) == Len(text) \div TokenDivisor

RECURSIVE SumWords(_)
\* the sum of len(content.split()) over the fragments
SumWords(parts) ==
    IF parts = << >> THEN 0 ELSE WordCount(Head(parts)) + SumWords(Tail(parts))

(***************************************************************************)
(* Windowing policy (groq_client.py, lines 75-88)                          *)
(***************************************************************************)
IsSystem(msg) == msg.role = "system"
NotSystem(msg) == msg.role # "system"

HasSystem(msgs) == \E i \in 1..Len(msgs) : IsSystem(msgs[i])

\* s[-n:]
LastN(s, n) ==
    IF Len(s) <= n THEN s ELSE SubSeq(s, Len(s) - n + 1, Len(s))

EnsureSystemAlways(msgs) == << SYSTEM_PROMPT >> \o msgs

\* if not any(role == 'system'): messages = [SYSTEM_PROMPT] + messages
EnsureSystem(msgs) ==
    IF HasSystem(msgs) THEN msgs ELSE << SYSTEM_PROMPT >> \o msgs

TrimWindowKeepOrder(msgs) ==
    IF Len(msgs) > WindowLimit THEN LastN(msgs, WindowLimit) ELSE msgs

\* if len(messages) > 21: messages = system_msgs + non_system_msgs[-20:]
TrimWindow(msgs) ==
    IF Len(msgs) > WindowLimit
    THEN SelectSeq(msgs, IsSystem)
            \o LastN(SelectSeq(msgs, NotSystem), RecentCount)
    ELSE msgs

\* the list handed to client.chat.completions.create
PrepareMessages(msgs) == TrimWindow(EnsureSystem(msgs))

(***************************************************************************)
(* Events and callback invocations                                         *)
(***************************************************************************)
\* lines 117-122, 132-137: a chunk event
ChunkEvent(text, fin) ==
    [chunk |-> text, finished |-> fin, tokens |-> Tokens(text),
     total_tokens |-> Tokens(text), error |-> FALSE]

\* lines 148-153: the event yielded by the except handler
ErrorEvent ==
    [chunk |-> Empty, finished |-> TRUE, tokens |-> 0, total_tokens |-> 0,
     error |-> TRUE]

\* on_chunk(text, finished, metadata) and what the callback did
Call(text, fin, err, ret) ==
    [chunk |-> text, finished |-> fin, error |-> err, ret |-> ret]

Returns == {"true", "false", "raise"}

(***************************************************************************)
(* Inputs                                                                  *)
(***************************************************************************)
Fragments ==
    { Empty, <<"a">>, <<" ">>, <<"a", " ">>, <<"a", " ", "a">> }

ScenarioFragment == <<"a", " ">>
ScenarioLen == DefaultChunkSize + 1
\* enough words for the pause of process_stream at the chunk size of CONFIG
AskScenarioLen == (PauseFactor + 1) * DefaultChunkSize + 1

ChunkSizes == (1..MaxChunk) \cup {DefaultChunkSize}

NonSystemRole(i) == IF i % 2 = 1 THEN "user" ELSE "assistant"

\* the list of length n whose system-role messages are at the positions sys
MessageList(n, sys) ==
    [i \in 1..n |->
        [role |-> IF i \in sys THEN "system" ELSE NonSystemRole(i),
         content |-> i]]

RECURSIVE PositionSetsFrom(_, _, _)
\* the sets of at most k positions of lo..n
PositionSetsFrom(lo, n, k) ==
    IF k = 0 THEN {{}}
    ELSE {{}} \cup
         UNION { { {p} \cup s : s \in PositionSetsFrom(p + 1, n, k - 1) } :
                 p \in lo..n }

\* the sets of at most k positions of 1..n
PositionSets(n, k) == PositionSetsFrom(1, n, k)

\* the caller's list has length n and at most k system-role messages
IsInput(msgs, n, k) ==
    \E sys \in PositionSets(n, k) : msgs = MessageList(n, sys)

InitLocals ==
    /\ request = << >>
    /\ buffer = << >>
    /\ word_count = 0
    /\ pc = "start"
    /\ events = << >>
    /\ calls = << >>
    /\ received = << >>
    /\ stream_pos = 0
    /\ api_raised = FALSE
    /\ propagated = FALSE

(***************************************************************************)
(* The message store (chat_db.py): values                                  *)
(*                                                                         *)
(* A role is a string; a content or a search text is a sequence of         *)
(* characters, in which SepPrefix stands for the whole text                *)
(* "--- NUEVA CONVERSACION".  An argument of add_message is a record that  *)
(* tells whether the value is a string and whether it is truthy.  A        *)
(* timestamp is a number; limit 0 also stands for limit=None, role "" for  *)
(* role=None and the empty search for search=None.                         *)
(***************************************************************************)
SepPrefix == "---"

RoleArg(s) == [is_str |-> TRUE, truthy |-> s # "", val |-> s]
TextArg(t) == [is_str |-> TRUE, truthy |-> t # << >>, val |-> t]
NonStrRole(truthy) == [is_str |-> FALSE, truthy |-> truthy, val |-> ""]
NonStrText(truthy) == [is_str |-> FALSE, truthy |-> truthy, val |-> << >>]

\* role.lower()
LowerRole(r) ==
    CASE r = "User" -> "user"
      [] r = "SYSTEM" -> "system"
      [] OTHER -> r

\* the lower case of one character
LowerChar(c) ==
    CASE c = "A" -> "a"
      [] c = "B" -> "b"
      [] OTHER -> c

RECURSIVE Like(_, _, _)
\* text LIKE pattern (ci: ILIKE): % is any text, _ is any one character
Like(pattern, text, ci) ==
    IF pattern = << >> THEN text = << >>
    ELSE IF Head(pattern) = "%"
         THEN \/ Like(Tail(pattern), text, ci)
              \/ text # << >> /\ Like(pattern, Tail(text), ci)
         ELSE /\ text # << >>
              /\ \/ Head(pattern) = "_"
                 \/ Head(pattern) = Head(text)
                 \/ ci /\ LowerChar(Head(pattern)) = LowerChar(Head(text))
              /\ Like(Tail(pattern), Tail(text), ci)

ValidArgAny(arg) == arg.is_str

\* lines 97-100: not x or not isinstance(x, str) raises ValueError
ValidArg(arg) == arg.truthy /\ arg.is_str

\* lines 150-151: role == "system" and content LIKE '--- NUEVA CONVERSACION%'
IsSeparator(row) ==
    /\ row.role = "system"
    /\ Like(<< SepPrefix, "%" >>, row.content, FALSE)

RowsOf(tbl) == { tbl[i] : i \in 1..Len(tbl) }

\* lines 148-157: the id of the first separator by created_at descending,
\* any one of them among equal timestamps; 0 if there is none
LatestSeparatorIds(tbl) ==
    LET seps == { r \in RowsOf(tbl) : IsSeparator(r) }
    IN  IF seps = {} THEN {0}
        ELSE { r.id : r \in { r \in seps :
                                \A x \in seps : x.created_at <= r.created_at } }

\* lines 163-164: if current_conversation_only and last_separator_id
InScope(row, only, sep) == (only /\ sep # 0) => row.id >= sep

\* lines 167-170: the search and role filters
Filtered(row, search, role) ==
    /\ search # << >> => Like(<< "%" >> \o search \o << "%" >>, row.content, TRUE)
    /\ role # "" => row.role = LowerRole(role)

\* lines 160-170: the rows the query selects
Matching(tbl, q, sep) ==
    { r \in RowsOf(tbl) :
        InScope(r, q.current_only, sep) /\ Filtered(r, q.search, q.role) }

RECURSIVE Orders(_)
\* line 177: the orders ORDER BY created_at DESC may give to a set of rows
Orders(rows) ==
    IF rows = {} THEN { << >> }
    ELSE UNION { { << r >> \o o : o \in Orders(rows \ {r}) } :
                 r \in { r \in rows : \A x \in rows : x.created_at <= r.created_at } }

\* line 179: limit if limit and limit > 0 else 100
EffLimit(limit) == IF limit > 0 THEN limit ELSE DefaultLimit

Min(a, b) == IF a <= b THEN a ELSE b

\* lines 178-180: .offset(offset).limit(...)
Page(order, offset, limit) ==
    SubSeq(order, offset + 1, Min(Len(order), offset + EffLimit(limit)))

(***************************************************************************)
(* get_db (lines 64-80): what one use of the context manager does with its *)
(* session.  body is what the with-block did, body_ok whether it finished  *)
(* without exception, exit_ok whether the commit of line 75 succeeded.     *)
(***************************************************************************)
GetDbNoCloseOnError(body, body_ok, exit_ok) ==
    << "open" >> \o body \o
    (IF body_ok
     THEN IF exit_ok THEN << "commit", "close" >>
          ELSE << "commit_failed", "rollback", "raise" >>
     ELSE << "rollback", "raise" >>)

GetDb(body, body_ok, exit_ok) ==
    << "open" >> \o body \o
    (IF body_ok
     THEN IF exit_ok THEN << "commit", "close" >>
          ELSE << "commit_failed", "rollback", "close", "raise" >>
     ELSE << "rollback", "close", "raise" >>)

Fails == {"none", "body", "exit"}

(***************************************************************************)
(* The message store: operations                                           *)
(***************************************************************************)
NoArgs ==
    [role |-> RoleArg(""), content |-> TextArg(<< >>), limit |-> 0,
     offset |-> 0, search |-> << >>, filter |-> "", current_only |-> FALSE]

Op(name, args, fail, outcome, rows, total) ==
    [name |-> name, args |-> args, fail |-> fail, outcome |-> outcome,
     rows |-> rows, total |-> total]

InitStore ==
    /\ table = << >>
    /\ next_id = 1
    /\ clock = 1
    /\ last_op = Op("none", NoArgs, "none", "none", << >>, 0)
    /\ session = << >>

\* the (role, content) arguments of add_message that are tried
AddInputs ==
    { << RoleArg("User"), TextArg(<< "a" >>) >>,
      << RoleArg("assistant"), TextArg(<< "A", "b" >>) >>,
      << RoleArg(""), TextArg(<< "a" >>) >>,
      << NonStrRole(TRUE), TextArg(<< "a" >>) >>,
      << RoleArg("User"), TextArg(<< >>) >>,
      << RoleArg("User"), NonStrText(TRUE) >> }

TieCount(tbl) ==
    Cardinality({ i \in 2..Len(tbl) : tbl[i].created_at = tbl[i-1].created_at })

\* datetime.now(): the wall clock does not go back but may not have advanced
\* since the previous insert
Now ==
    { clock + 1 } \cup
    (IF table # << >> /\ TieCount(table) < MaxTies THEN { clock } ELSE {})

\* line 104: Message(role=role.lower(), content=content), id and created_at
\* assigned at the insert
NewRow(role, content, ts) ==
    [id |-> next_id, role |-> LowerRole(role), content |-> content,
     created_at |-> ts]

InsertReplacing(row, fail) ==
    IF fail = "body"
    THEN UNCHANGED << table, next_id, clock >>
    ELSE /\ table' = << row >>
         /\ next_id' = next_id + 1
         /\ clock' = row.created_at

\* the insert of one row, then a failure at fail or none
Insert(row, fail) ==
    IF fail = "body"
    THEN UNCHANGED << table, next_id, clock >>
    ELSE /\ table' = Append(table, row)
         /\ next_id' = next_id + 1
         /\ clock' = row.created_at

\* add_message (lines 83-117)
AddMessage(role, content, fail, ts) ==
    LET args == [NoArgs EXCEPT !.role = role, !.content = content]
    IN  IF ~ValidArg(role) \/ ~ValidArg(content)
        THEN /\ fail = "none"
             /\ ts = clock + 1
             /\ last_op' = Op("add_message", args, "none",
                              "validation_error", << >>, 0)
             /\ session' = << >>
             /\ UNCHANGED << table, next_id, clock >>
        ELSE LET row == NewRow(role.val, content.val, ts)
             IN  /\ next_id <= MaxRows
                 /\ Insert(row, fail)
                 /\ session' = GetDb(IF fail = "body" THEN << "add" >>
                                     ELSE << "add", "commit" >>,
                                     fail # "body", fail # "exit")
                 /\ last_op' =
                      IF fail = "none"
                      THEN Op("add_message", args, fail, "ok", << row >>, 0)
                      ELSE Op("add_message", args, fail, "storage_error",
                              << >>, 0)

AddMessageOp ==
    /\ \E in \in AddInputs, fail \in Fails, ts \in Now :
         AddMessage(in[1], in[2], fail, ts)
    /\ UNCHANGED << streamVars, askVars, outerVars >>

Limits == {0, 1, 2}
Offsets == {0, 1}
Searches == { << >>, << "a" >>, << "B" >>, << "_" >> }
Filters == {"", "User"}

\* the arguments of get_all_messages that are tried
Queries ==
    { [NoArgs EXCEPT !.limit = l, !.offset = o, !.current_only = c] :
        l \in Limits, o \in Offsets, c \in BOOLEAN }
    \cup
    { [NoArgs EXCEPT !.search = s, !.filter = f] :
        s \in Searches, f \in Filters }

\* lines 144-194: the (page, total) pairs the query may return on a table
QueryOutcomes(tbl, q) ==
    { [rows |-> Page(o, q.offset, q.limit), total |-> Len(o)] :
        o \in UNION { Orders(Matching(tbl, [q EXCEPT !.role = q.filter], sep)) :
                        sep \in LatestSeparatorIds(tbl) } }

\* get_all_messages (lines 120-197)
GetAllMessages(q, fail) ==
    /\ session' = GetDb(IF fail = "body" THEN << >> ELSE << "query" >>,
                        fail # "body", fail # "exit")
    /\ IF fail = "none"
       THEN \E res \in QueryOutcomes(table, q) :
                 last_op' = Op("get_all_messages", q, fail, "ok",
                               res.rows, res.total)
       ELSE last_op' = Op("get_all_messages", q, fail, "storage_error",
                          << >>, 0)
    /\ UNCHANGED << table, next_id, clock >>

GetAllMessagesOp ==
    /\ \E q \in Queries, fail \in Fails : GetAllMessages(q, fail)
    /\ UNCHANGED << streamVars, askVars, outerVars >>

\* clear_chat_history (lines 290-301)
ClearChatHistory(fail) ==
    /\ IF fail = "body" THEN UNCHANGED table ELSE table' = << >>
    /\ session' = GetDb(IF fail = "body" THEN << "delete" >>
                        ELSE << "delete", "commit" >>,
                        fail # "body", fail # "exit")
    /\ last_op' = Op("clear_chat_history", NoArgs, fail,
                     IF fail = "none" THEN "ok" ELSE "storage_error",
                     << >>, 0)
    /\ UNCHANGED << next_id, clock >>

ClearChatHistoryOp ==
    /\ \E fail \in Fails : ClearChatHistory(fail)
    /\ UNCHANGED << streamVars, askVars, outerVars >>

\* create_new_conversation (lines 304-331)
CreateNewConversation(fail, ts) ==
    LET row == NewRow("system", << SepPrefix, "a" >>, ts)
    IN  /\ next_id <= MaxRows
        /\ Insert(row, fail)
        /\ session' = GetDb(IF fail = "body" THEN << "add" >>
                            ELSE << "add", "commit" >>,
                            fail # "body", fail # "exit")
        /\ last_op' = Op("create_new_conversation", NoArgs, fail,
                         IF fail = "none" THEN "true" ELSE "false",
                         << >>, 0)

CreateNewConversationOp ==
    /\ \E fail \in Fails, ts \in Now : CreateNewConversation(fail, ts)
    /\ UNCHANGED << streamVars, askVars, outerVars >>

NextStore ==
    \/ AddMessageOp
    \/ GetAllMessagesOp
    \/ ClearChatHistoryOp
    \/ CreateNewConversationOp

(***************************************************************************)
(* ask and process_stream (app.py)                                         *)
(***************************************************************************)
\* no other entry point called, no interactive session
InitOuter ==
    /\ client = [fn |-> "none", raised |-> FALSE]
    /\ loop_pc = "off"
    /\ loop_end = "none"

InitAsk ==
    /\ ask_pc = "idle"
    /\ confirm_continue = TRUE
    /\ full_response = << >>
    /\ current_chunk = << >>
    /\ seen = 0
    /\ prompts = << >>
    /\ ps_result = [returned |-> FALSE, response |-> Empty, meta |-> "none"]
    /\ InitOuter

Init ==
    /\ \E n \in 0..MaxStreamMsgs : IsInput(messages, n, 1)
    /\ chunk_size \in ChunkSizes
    /\ on_chunk \in BOOLEAN
    /\ InitLocals
    /\ InitStore
    /\ InitAsk

InitWindow ==
    /\ \E n \in 0..MaxMsgs : IsInput(messages, n, MaxSystem)
    /\ chunk_size = DefaultChunkSize
    /\ on_chunk = FALSE
    /\ InitLocals
    /\ InitStore
    /\ InitAsk

(***************************************************************************)
(* The generator, one action per step between two suspension points        *)
(***************************************************************************)

\* lines 72-100: the first next() runs the windowing and creates the stream
CreateRequest ==
    /\ pc = "start"
    /\ request' = PrepareMessages(messages)
    /\ pc' = "loop"
    /\ UNCHANGED << messages, chunk_size, on_chunk, buffer, word_count,
                    events, calls, received, stream_pos, api_raised,
                    propagated >>
    /\ UNCHANGED << storeVars, askVars, outerVars >>

\* lines 144-153: the except handler yields the error event
RaiseInTry ==
    /\ events' = Append(events, ErrorEvent)
    /\ pc' = "yield_error"

\* lines 93-100, 144-153: completions.create raises
CreateRaises ==
    /\ pc = "start"
    /\ request' = PrepareMessages(messages)
    /\ api_raised' = TRUE
    /\ RaiseInTry
    /\ UNCHANGED << messages, chunk_size, on_chunk, buffer, word_count,
                    calls, received, stream_pos, propagated >>
    /\ UNCHANGED << storeVars, askVars, outerVars >>

\* the stream may deliver another item
CanDeliver ==
    \/ stream_pos < MaxFrags
    \/ /\ chunk_size = DefaultChunkSize
       /\ stream_pos < (IF ask_pc = "stream" THEN AskScenarioLen ELSE ScenarioLen)
       /\ \A i \in 1..Len(received) : received[i] = ScenarioFragment
       /\ Len(received) = stream_pos

CanDeliverFragment(f) ==
    \/ stream_pos < MaxFrags
    \/ CanDeliver /\ f = ScenarioFragment

\* lines 103-104: an item without choices or without delta is skipped
SkipItem ==
    /\ pc = "loop"
    /\ stream_pos < MaxFrags
    /\ stream_pos' = stream_pos + 1
    /\ UNCHANGED << messages, chunk_size, on_chunk, request, buffer,
                    word_count, pc, events, calls, received, api_raised,
                    propagated >>
    /\ UNCHANGED << storeVars, askVars, outerVars >>

ReachedChunkStrict(wc) == wc > chunk_size

\* line 112: if word_count >= chunk_size
ReachedChunk(wc) == wc >= chunk_size

BufferKept(buf) == buf

\* line 114: buffer = []
BufferAfterEmit(buf) == << >>

\* lines 106-124: one item of the stream with content f (None counts as '')
Fragment(f) ==
    /\ pc = "loop"
    /\ CanDeliverFragment(f)
    /\ stream_pos' = stream_pos + 1
    /\ received' = Append(received, f)
    /\ LET buf == Append(buffer, f)
           wc == word_count + WordCount(f)
       IN  IF ReachedChunk(wc)
           THEN /\ buffer' = BufferAfterEmit(buf)
                /\ word_count' = 0
                /\ events' = Append(events, ChunkEvent(Join(buf), FALSE))
                /\ pc' = "yield_chunk"
           ELSE /\ buffer' = buf
                /\ word_count' = wc
                /\ UNCHANGED << events, pc >>
    /\ UNCHANGED << messages, chunk_size, on_chunk, request, calls,
                    api_raised, propagated >>
    /\ UNCHANGED << storeVars, askVars, outerVars >>

\* line 102, 144-153: iterating the stream raises
StreamRaises ==
    /\ pc = "loop"
    /\ api_raised' = TRUE
    /\ RaiseInTry
    /\ UNCHANGED << messages, chunk_size, on_chunk, request, buffer,
                    word_count, calls, received, stream_pos, propagated >>
    /\ UNCHANGED << storeVars, askVars, outerVars >>

AfterLoopNoFlush ==
    /\ pc' = "done"
    /\ UNCHANGED events

\* lines 129-139: after the loop, the remaining buffer is emitted
AfterLoop ==
    IF buffer # << >>
    THEN /\ events' = Append(events, ChunkEvent(Join(buffer), TRUE))
         /\ pc' = "yield_final"
    ELSE /\ pc' = "done"
         /\ UNCHANGED events

\* line 102: the stream is exhausted
StreamEnds ==
    /\ pc = "loop"
    /\ AfterLoop
    /\ UNCHANGED << messages, chunk_size, on_chunk, request, buffer,
                    word_count, calls, received, stream_pos, api_raised,
                    propagated >>
    /\ UNCHANGED << storeVars, askVars, outerVars >>

\* lines 126-127: the consumer resumes the generator after a non-final chunk
ResumeAfterChunk(ret) ==
    /\ pc = "yield_chunk"
    /\ LET ev == events[Len(events)]
       IN  IF ~on_chunk
           THEN /\ ret = "true"
                /\ pc' = "loop"
                /\ UNCHANGED << events, calls >>
           ELSE /\ calls' = Append(calls, Call(ev.chunk, FALSE, FALSE, ret))
                /\ CASE ret = "true"  -> pc' = "loop" /\ UNCHANGED events
                     [] ret = "false" -> AfterLoop
                     [] ret = "raise" -> RaiseInTry
    /\ UNCHANGED << messages, chunk_size, on_chunk, request, buffer,
                    word_count, received, stream_pos, api_raised,
                    propagated >>
    /\ UNCHANGED << storeVars, askVars, outerVars >>

\* lines 141-142: the consumer resumes the generator after the final chunk
ResumeAfterFinal(ret) ==
    /\ pc = "yield_final"
    /\ LET ev == events[Len(events)]
       IN  IF ~on_chunk
           THEN /\ ret = "true"
                /\ pc' = "done"
                /\ UNCHANGED << events, calls >>
           ELSE /\ calls' = Append(calls, Call(ev.chunk, TRUE, FALSE, ret))
                /\ IF ret = "raise"
                   THEN RaiseInTry
                   ELSE pc' = "done" /\ UNCHANGED events
    /\ UNCHANGED << messages, chunk_size, on_chunk, request, buffer,
                    word_count, received, stream_pos, api_raised,
                    propagated >>
    /\ UNCHANGED << storeVars, askVars, outerVars >>

\* lines 155-156: the consumer resumes the generator after the error event
ResumeAfterError(ret) ==
    /\ pc = "yield_error"
    /\ pc' = "done"
    /\ IF ~on_chunk
       THEN /\ ret = "true"
            /\ UNCHANGED << calls, propagated >>
       ELSE /\ calls' = Append(calls, Call(Empty, TRUE, TRUE, ret))
            /\ propagated' = (ret = "raise")
    /\ UNCHANGED << messages, chunk_size, on_chunk, request, buffer,
                    word_count, events, received, stream_pos, api_raised >>
    /\ UNCHANGED << storeVars, askVars, outerVars >>

\* the consumer stops iterating: the generator is closed at its yield
ConsumerStops ==
    /\ pc \in {"yield_chunk", "yield_final", "yield_error"}
    /\ pc' = "closed"
    /\ UNCHANGED << messages, chunk_size, on_chunk, request, buffer,
                    word_count, events, calls, received, stream_pos,
                    api_raised, propagated >>
    /\ UNCHANGED << storeVars, askVars, outerVars >>

Next ==
    \/ CreateRequest
    \/ CreateRaises
    \/ SkipItem
    \/ \E f \in Fragments : Fragment(f)
    \/ StreamRaises
    \/ StreamEnds
    \/ \E ret \in Returns : ResumeAfterChunk(ret)
    \/ \E ret \in Returns : ResumeAfterFinal(ret)
    \/ \E ret \in Returns : ResumeAfterError(ret)
    \/ ConsumerStops

Spec == Init /\ [][Next]_vars

NextWindow ==
    \/ CreateRequest
    \/ CreateRaises

SpecWindow == InitWindow /\ [][NextWindow]_vars

(***************************************************************************)
(* The entry points of the client module (groq_client.py): stream_response *)
(* up to its request, get_chat_response and stream_chat_response.  The     *)
(* content of a separator marker at position i of a list is -i.            *)
(***************************************************************************)
\* the module imports os, logging, typing, dotenv and groq, not time
TimeImported == FALSE

\* content.startswith("--- NUEVA CONVERSACION")
StartsWithMarker(content) == content < 0

\* lines 186-188
IsSeparatorMessage(msg) == msg.role = "system" /\ StartsWithMarker(msg.content)

\* the list of length n whose positions sys hold system-role messages, which
\* are separator markers iff marked
HistoryList(n, sys, marked) ==
    [i \in 1..n |->
        [role |-> IF i \in sys THEN "system" ELSE NonSystemRole(i),
         content |-> IF i \in sys /\ marked THEN 0 - i ELSE i]]

\* the question of stream_chat_response, as a message
QuestionMessage == [role |-> "user", content |-> HistoryLimit + MaxMsgs]

\* lines 178-199: the messages stream_chat_response sends
StreamChatMessages(history) ==
    IF history = << >>
    THEN << SYSTEM_PROMPT, QuestionMessage >>
    ELSE LET h == LastN(history, HistoryLimit)
             seps == { i \in 1..Len(h) : IsSeparatorMessage(h[i]) }
             kept == IF seps = {} THEN h
                     ELSE LET first == CHOOSE i \in seps : \A j \in seps : i <= j
                          IN  SubSeq(h, first + 1, Len(h))
         IN  << SYSTEM_PROMPT >> \o kept \o << QuestionMessage >>

\* stream_chat_response (lines 159-223): the request; an exception of the
\* API is re-raised
StreamChatResponse(raises) ==
    /\ pc = "start"
    /\ client.fn = "none"
    /\ request' = StreamChatMessages(messages)
    /\ client' = [fn |-> "stream_chat_response", raised |-> raises]
    /\ api_raised' = raises
    /\ pc' = "done"
    /\ UNCHANGED << messages, chunk_size, on_chunk, buffer, word_count,
                    events, calls, received, stream_pos, propagated >>
    /\ UNCHANGED << storeVars, askVars, loop_pc, loop_end >>

StreamChatResponseOp == \E raises \in BOOLEAN : StreamChatResponse(raises)

\* get_chat_response (lines 226-294): time.time() of line 243 raises
\* NameError before anything is sent; otherwise the windowing of lines
\* 252-264 and the request
GetChatResponse(raises) ==
    /\ pc = "start"
    /\ client.fn = "none"
    /\ IF TimeImported
       THEN /\ request' = PrepareMessages(messages)
            /\ client' = [fn |-> "get_chat_response", raised |-> FALSE]
            /\ api_raised' = raises
       ELSE /\ raises = FALSE
            /\ client' = [fn |-> "get_chat_response", raised |-> TRUE]
            /\ UNCHANGED << request, api_raised >>
    /\ pc' = "done"
    /\ UNCHANGED << messages, chunk_size, on_chunk, buffer, word_count,
                    events, calls, received, stream_pos, propagated >>
    /\ UNCHANGED << storeVars, askVars, loop_pc, loop_end >>

GetChatResponseOp == \E raises \in BOOLEAN : GetChatResponse(raises)

InitClient ==
    /\ \/ \E n \in 0..MaxMsgs : \E sys \in PositionSets(n, MaxSystem - 1) :
            \E marked \in BOOLEAN : messages = HistoryList(n, sys, marked)
       \/ \E sys \in PositionSets(HistoryLimit + 1, 1) :
            messages = HistoryList(HistoryLimit + 1, sys, TRUE)
    /\ chunk_size = DefaultChunkSize
    /\ on_chunk = FALSE
    /\ InitLocals
    /\ InitStore
    /\ InitAsk

NextClient ==
    \/ client.fn = "none" /\ CreateRequest
    \/ client.fn = "none" /\ CreateRaises
    \/ StreamChatResponseOp
    \/ GetChatResponseOp

SpecClient == InitClient /\ [][NextClient]_vars

InitStoreSpec ==
    /\ messages = << >>
    /\ chunk_size = DefaultChunkSize
    /\ on_chunk = FALSE
    /\ InitLocals
    /\ InitStore
    /\ InitAsk

SpecStore == InitStoreSpec /\ [][NextStore]_vars

(***************************************************************************)
(* ask and process_stream (app.py): one run of the ask command             *)
(***************************************************************************)
NoResult == [returned |-> FALSE, response |-> Empty, meta |-> "none"]

Result(texts, meta) ==
    [returned |-> TRUE, response |-> Join(texts), meta |-> meta]

Questions == { << "a" >>, << " " >> }

\* what input() gives at the pause: a line, Ctrl+C or the end of the input
KeyboardInterrupt == "^C"
EndOfInput == "^D"
PromptInputs == { "", "q", "Q", "n", KeyboardInterrupt, EndOfInput }

\* input().lower()
LowerInput(a) == IF a = "Q" THEN "q" ELSE a

\* lines 224-232: the role and content of a record, as sent to the API
ToApiMessage(record) ==
    [role |-> IF record.role = "user" THEN "user" ELSE "assistant",
     content |-> record.content]

AskQuery == [NoArgs EXCEPT !.limit = AskLimit, !.current_only = TRUE]

\* lines 205-232: the question is checked and stored, the history read
AskBegin(question, fail, ts, qfail) ==
    /\ ask_pc = "idle"
    /\ IF WordCount(question) = 0
       THEN /\ fail = "none" /\ qfail = "none" /\ ts = clock + 1
            /\ ask_pc' = "exit1"
            /\ UNCHANGED << messages, storeVars >>
       ELSE LET row == NewRow("user", question, ts)
                stored == Append(table, row)
                args == [NoArgs EXCEPT !.role = RoleArg("user"),
                                       !.content = TextArg(question)]
            IN  /\ next_id <= MaxRows
                /\ Insert(row, fail)
                /\ IF fail # "none"
                   THEN /\ qfail = "none"
                        /\ session' = GetDb(IF fail = "body" THEN << "add" >>
                                            ELSE << "add", "commit" >>,
                                            fail # "body", fail # "exit")
                        /\ last_op' = Op("add_message", args, fail,
                                         "storage_error", << >>, 0)
                        /\ ask_pc' = "exit1"
                        /\ UNCHANGED messages
                   ELSE /\ session' = GetDb(IF qfail = "body" THEN << >>
                                            ELSE << "query" >>,
                                            qfail # "body", qfail # "exit")
                        /\ IF qfail # "none"
                           THEN /\ last_op' = Op("get_all_messages", AskQuery,
                                                 qfail, "storage_error",
                                                 << >>, 0)
                                /\ ask_pc' = "exit1"
                                /\ UNCHANGED messages
                           ELSE \E res \in QueryOutcomes(stored, AskQuery) :
                                  /\ last_op' = Op("get_all_messages",
                                                   AskQuery, qfail, "ok",
                                                   res.rows, res.total)
                                  /\ messages' =
                                       [i \in 1..Len(res.rows) |->
                                           ToApiMessage(res.rows[i])]
                                  /\ ask_pc' = "stream"
    /\ UNCHANGED << chunk_size, on_chunk, request, buffer, word_count, pc,
                    events, calls, received, stream_pos, api_raised,
                    propagated >>
    /\ UNCHANGED << confirm_continue, full_response, current_chunk, seen,
                    prompts, ps_result, outerVars >>

AskBeginOp ==
    \E question \in Questions, fail \in Fails, ts \in Now, qfail \in Fails :
        AskBegin(question, fail, ts, qfail)

\* lines 100-108, 111: the generator runs when the loop asks for the next
\* item; on_chunk_callback returns True
AskGenerator ==
    /\ ask_pc = "stream"
    /\ seen = Len(events)
    /\ \/ CreateRequest
       \/ CreateRaises
       \/ SkipItem
       \/ \E f \in Fragments : Fragment(f)
       \/ StreamRaises
       \/ StreamEnds
       \/ ResumeAfterChunk("true")
       \/ ResumeAfterFinal("true")

PausesAlsoFinal(texts, ev) ==
    /\ WordCount(Join(texts)) > chunk_size * PauseFactor
    /\ confirm_continue

\* lines 133-134: the pause condition
Pauses(texts, ev) ==
    /\ WordCount(Join(texts)) > chunk_size * PauseFactor
    /\ confirm_continue
    /\ ~ev.finished

\* process_stream returns: the generator is dropped where it stands
Returning(texts, meta) ==
    /\ ps_result' = Result(texts, meta)
    /\ ask_pc' = "returned"
    /\ pc' = "closed"

\* lines 111-139: the body of the loop for one event
ProcessEvent(in) ==
    /\ ask_pc = "stream"
    /\ pc \in {"yield_chunk", "yield_final", "yield_error"}
    /\ seen < Len(events)
    /\ seen' = Len(events)
    /\ LET ev == events[Len(events)]
           cur == Append(current_chunk, ev.chunk)
           full == Append(full_response, ev.chunk)
       IN  IF ev.error
           THEN /\ in = ""
                /\ Returning(full_response, "normal")
                /\ UNCHANGED << full_response, current_chunk, prompts >>
           ELSE /\ full_response' = full
                /\ IF Pauses(cur, ev)
                   THEN /\ prompts' = Append(prompts, [after |-> Len(events),
                                                      input |-> in])
                        /\ CASE in = KeyboardInterrupt ->
                                  /\ Returning(full, "interrupted")
                                  /\ current_chunk' = cur
                             [] in = EndOfInput ->
                                  /\ Returning(full, "error")
                                  /\ current_chunk' = cur
                             [] LowerInput(in) = "q" ->
                                  /\ Returning(full, "normal")
                                  /\ current_chunk' = cur
                             [] OTHER ->
                                  /\ current_chunk' = << >>
                                  /\ UNCHANGED << ask_pc, pc, ps_result >>
                   ELSE /\ in = ""
                        /\ current_chunk' = cur
                        /\ UNCHANGED << ask_pc, pc, ps_result, prompts >>
    /\ UNCHANGED << messages, chunk_size, on_chunk, request, buffer,
                    word_count, events, calls, received, stream_pos,
                    api_raised, propagated >>
    /\ UNCHANGED << storeVars, confirm_continue, outerVars >>

ProcessEventOp == \E in \in PromptInputs : ProcessEvent(in)

\* lines 141-149: the generator is exhausted and the loop ends
LoopEnds ==
    /\ ask_pc = "stream"
    /\ pc = "done"
    /\ seen = Len(events)
    /\ ps_result' = Result(full_response, "normal")
    /\ ask_pc' = "returned"
    /\ UNCHANGED << streamVars, storeVars, confirm_continue, full_response,
                    current_chunk, seen, prompts, outerVars >>

\* lines 151-153: Ctrl+C while the response is generated
Interrupted ==
    /\ ask_pc = "stream"
    /\ Returning(full_response, "interrupted")
    /\ UNCHANGED << messages, chunk_size, on_chunk, request, buffer,
                    word_count, events, calls, received, stream_pos,
                    api_raised, propagated >>
    /\ UNCHANGED << storeVars, confirm_continue, full_response,
                    current_chunk, seen, prompts, outerVars >>

\* line 253: not metadata.get('interrupted') and not metadata.get('error')
Stores(meta) == meta \notin {"interrupted", "error"}

\* lines 252-258: the response is stored, unless interrupted or failed
AskEnd(fail, ts) ==
    /\ ask_pc = "returned"
    /\ IF Stores(ps_result.meta)
       THEN /\ AddMessage(RoleArg("assistant"), TextArg(ps_result.response),
                          fail, ts)
            /\ ask_pc' = IF last_op'.outcome = "ok" THEN "done" ELSE "exit1"
       ELSE /\ fail = "none" /\ ts = clock + 1
            /\ ask_pc' = "done"
            /\ UNCHANGED storeVars
    /\ UNCHANGED << streamVars, confirm_continue, full_response,
                    current_chunk, seen, prompts, ps_result, outerVars >>

AskEndOp == \E fail \in Fails, ts \in Now : AskEnd(fail, ts)

NextAsk ==
    \/ AskBeginOp
    \/ AskGenerator
    \/ ProcessEventOp
    \/ LoopEnds
    \/ Interrupted
    \/ AskEndOp

InitAskSpec ==
    /\ messages = << >>
    /\ chunk_size \in ChunkSizes
    /\ on_chunk = TRUE
    /\ InitLocals
    /\ InitStore
    /\ ask_pc = "idle"
    /\ confirm_continue \in BOOLEAN
    /\ full_response = << >>
    /\ current_chunk = << >>
    /\ seen = 0
    /\ prompts = << >>
    /\ ps_result = NoResult
    /\ InitOuter

SpecAsk == InitAskSpec /\ [][NextAsk]_vars

(***************************************************************************)
(* The context of ask: earlier messages and separators are stored, then    *)
(* ask runs up to the request of stream_response                           *)
(***************************************************************************)
NextAskContext ==
    \/ ask_pc = "idle" /\ AddMessageOp
    \/ ask_pc = "idle" /\ CreateNewConversationOp
    \/ AskBeginOp
    \/ ask_pc = "stream" /\ CreateRequest
    \/ ask_pc = "stream" /\ CreateRaises

SpecAskContext == InitAskSpec /\ [][NextAskContext]_vars

(***************************************************************************)
(* The interactive session (interactive.py)                                *)
(***************************************************************************)
\* what Prompt.ask gives: a line, Ctrl+C or the end of the input
LoopInputs ==
    { "/exit", "/QUIT ", "/salir", "/help", "/clear", "/x", "", " ", "a",
      KeyboardInterrupt, EndOfInput }

\* line 240: user_input.startswith("/")
StartsWithSlash(in) ==
    in \in { "/exit", "/QUIT ", "/salir", "/help", "/clear", "/x" }

\* line 241: user_input.lower().strip()
LowerStrip(in) ==
    CASE in = "/QUIT " -> "/quit"
      [] in = " " -> ""
      [] OTHER -> in

\* the text of the line "a", as ask receives it through sys.argv
LoopQuestion == << "a" >>

\* lines 219-225: run_interactive starts a conversation; a failure of the
\* store is answered with a warning or ignored
RunInteractiveStart(fail, ts) ==
    /\ loop_pc = "off"
    /\ CreateNewConversation(fail, ts)
    /\ loop_pc' = "prompt"
    /\ UNCHANGED << streamVars, askVars, client, loop_end >>

RunInteractiveStartOp ==
    \E fail \in Fails, ts \in Now : RunInteractiveStart(fail, ts)

\* lines 235-303, 320-326: one prompt of the loop and the handling of a
\* command, an empty line, Ctrl+C or the end of the input
PromptAsk(in, fail, ts) ==
    /\ loop_pc = "prompt"
    /\ CASE in = KeyboardInterrupt ->
              /\ fail = "none" /\ ts = clock + 1
              /\ loop_pc' = "ended" /\ loop_end' = "interrupt"
              /\ UNCHANGED storeVars
         [] in = EndOfInput ->
              /\ fail = "none" /\ ts = clock + 1
              /\ loop_pc' = "ended" /\ loop_end' = "error"
              /\ UNCHANGED storeVars
         [] StartsWithSlash(in)
              /\ LowerStrip(in) \in { "/exit", "/quit", "/salir" } ->
              /\ fail = "none" /\ ts = clock + 1
              /\ loop_pc' = "ended" /\ loop_end' = "command"
              /\ UNCHANGED storeVars
         [] StartsWithSlash(in) /\ LowerStrip(in) = "/clear" ->
              /\ CreateNewConversation(fail, ts)
              /\ UNCHANGED << loop_pc, loop_end >>
         [] ~StartsWithSlash(in) /\ LowerStrip(in) # "" ->
              /\ fail = "none" /\ ts = clock + 1
              /\ loop_pc' = "asking"
              /\ UNCHANGED << storeVars, loop_end >>
         [] OTHER ->
              /\ fail = "none" /\ ts = clock + 1
              /\ UNCHANGED << storeVars, loop_pc, loop_end >>
    /\ UNCHANGED << streamVars, askVars, client >>

PromptAskOp ==
    \E in \in LoopInputs, fail \in Fails, ts \in Now : PromptAsk(in, fail, ts)

\* lines 193-200: process_query_with_streaming sets sys.argv and calls app(),
\* which runs the ask command on the line
ProcessQueryAsk ==
    /\ loop_pc = "asking"
    /\ \E fail \in Fails, ts \in Now, qfail \in Fails :
           AskBegin(LoopQuestion, fail, ts, qfail)

\* line 200: app() is the Typer application called in standalone mode: when
\* the command has returned or raised typer.Exit, it leaves through
\* sys.exit; SystemExit is not an Exception, so neither lines 203-208 nor
\* lines 320-326 catch it and it ends run_interactive
AppSystemExit ==
    /\ loop_pc = "asking"
    /\ ask_pc \in { "done", "exit1" }
    /\ loop_pc' = "ended"
    /\ loop_end' = "system_exit"
    /\ UNCHANGED << streamVars, storeVars, askVars, client >>

NextInteractive ==
    \/ RunInteractiveStartOp
    \/ PromptAskOp
    \/ ProcessQueryAsk
    \/ loop_pc = "asking" /\ AskGenerator
    \/ loop_pc = "asking" /\ ProcessEventOp
    \/ loop_pc = "asking" /\ LoopEnds
    \/ loop_pc = "asking" /\ Interrupted
    \/ loop_pc = "asking" /\ AskEndOp
    \/ AppSystemExit

\* CONFIG of app.py: max_chunk_size 30, confirm_continue True
InitInteractive ==
    /\ messages = << >>
    /\ chunk_size = DefaultChunkSize
    /\ on_chunk = TRUE
    /\ InitLocals
    /\ InitStore
    /\ ask_pc = "idle"
    /\ confirm_continue = TRUE
    /\ full_response = << >>
    /\ current_chunk = << >>
    /\ seen = 0
    /\ prompts = << >>
    /\ ps_result = NoResult
    /\ InitOuter

SpecInteractive == InitInteractive /\ [][NextInteractive]_vars

(***************************************************************************)
(* Helpers of the properties                                               *)
(***************************************************************************)
Over == pc \in {"done", "closed"}

\* the run ended by itself: the consumer iterated the generator to its end
Exhausted == pc = "done"

CallbackReturned(r) == \E i \in 1..Len(calls) : calls[i].ret = r

\* the stream completed normally and the callback, if any, returned true
NormalRun ==
    /\ Exhausted
    /\ ~api_raised
    /\ ~CallbackReturned("false")
    /\ ~CallbackReturned("raise")

RECURSIVE EventTexts(_)
EventTexts(evs) ==
    IF evs = << >> THEN << >>
    ELSE << Head(evs).chunk >> \o EventTexts(Tail(evs))

FinalIndexes == { i \in 1..Len(events) : events[i].finished }
NonFinalIndexes == { i \in 1..Len(events) : ~events[i].finished }
ErrorIndexes == { i \in 1..Len(events) : events[i].error }

TypeOK ==
    /\ pc \in {"start", "loop", "yield_chunk", "yield_final", "yield_error",
               "done", "closed"}
    /\ word_count \in Nat
    /\ stream_pos \in Nat
    /\ on_chunk \in BOOLEAN

Last(s) == s[Len(s)]

NonFinalCount == Cardinality(NonFinalIndexes)

\* ceil(a / b) for b >= 1
Ceil(a, b) == (a + b - 1) \div b

\* the number of elements of s that satisfy Test
Count(s, Test(_)) == Len(SelectSeq(s, Test))

\* the list after the system-prompt step, stated from the caller's list
Stepped ==
    IF \E i \in 1..Len(messages) : messages[i].role = "system"
    THEN messages
    ELSE [i \in 1..(Len(messages) + 1) |->
            IF i = 1 THEN SYSTEM_PROMPT ELSE messages[i - 1]]

Sent == pc # "start"

(***************************************************************************)
(* C1  Round trip: in every run that is over in which the API raised no    *)
(* error and the callback never returned false, the concatenation of the   *)
(* chunk texts of the yielded events, in emission order, equals the        *)
(* concatenation of the fragments the stream delivered.                    *)
(***************************************************************************)
C1_RoundTrip ==
    (Over /\ ~api_raised /\ ~CallbackReturned("false"))
        => Join(EventTexts(events)) = Join(received)

C1_Witness ==
    /\ Exhausted
    /\ ~api_raised
    /\ ~CallbackReturned("false")
    /\ Len(received) = 3
    /\ Len(events) = 2
    /\ ~events[1].finished
    /\ Len(events[1].chunk) >= 2
    /\ events[2].finished
    /\ Len(events[2].chunk) >= 1

(***************************************************************************)
(* C2  Every run whose stream completes normally (no API error, callback   *)
(* never returns false) yields exactly one event with finished = true, as  *)
(* its last event, also when the buffer is empty at completion.            *)
(***************************************************************************)
C2_FinalEventAlways ==
    NormalRun => (events # << >> /\ FinalIndexes = {Len(events)})

(***************************************************************************)
(* C3  Once an event with finished = true has been yielded, no further     *)
(* event is yielded, whatever the API and the callback do.                 *)
(***************************************************************************)
C3_NothingAfterFinal ==
    [][FinalIndexes # {} => events' = events]_vars

(***************************************************************************)
(* C4  If creating the request or iterating the stream raises, the run     *)
(* yields exactly one event with an error and finished = true, as its last *)
(* event, and no exception propagates to the consumer of the generator.    *)
(***************************************************************************)
C4_ErrorEventNoRaise ==
    api_raised =>
        /\ events # << >>
        /\ Last(events).error
        /\ Last(events).finished
        /\ ErrorIndexes = {Len(events)}
        /\ ~propagated

(***************************************************************************)
(* C5 as stated: the number of non-final chunks is ceil(W / C), W being    *)
(* the number of words of the concatenation of the fragments.              *)
(***************************************************************************)
C5_CeilCount ==
    NormalRun => NonFinalCount = Ceil(WordCount(Join(received)), chunk_size)

AtMostOneWord(f) == WordCount(f) <= 1

ScenarioReceived == [i \in 1..ScenarioLen |-> ScenarioFragment]

(***************************************************************************)
(* C5 as amended: with Wf the sum of the fragments' own word counts, a     *)
(* normal run emits at most floor(Wf / C) non-final chunks, and exactly    *)
(* floor(Wf / C) when every fragment holds at most one word; 31 fragments  *)
(* "a " with C = 30 give a first chunk of the 30 joined fragments and a    *)
(* final chunk with the remaining one.                                     *)
(***************************************************************************)
C5_FloorCount ==
    NormalRun =>
        /\ NonFinalCount <= SumWords(received) \div chunk_size
        /\ (Count(received, AtMostOneWord) = Len(received)
              => NonFinalCount = SumWords(received) \div chunk_size)
        /\ (chunk_size = DefaultChunkSize /\ received = ScenarioReceived
              => events =
                   << ChunkEvent(Join(SubSeq(ScenarioReceived, 1,
                                             DefaultChunkSize)), FALSE),
                      ChunkEvent(ScenarioFragment, TRUE) >>)

C5_Witness ==
    /\ NormalRun
    /\ chunk_size = DefaultChunkSize
    /\ received = ScenarioReceived
    /\ Len(events) = 2

(***************************************************************************)
(* C6  Cooperative stop: from the moment the callback has returned false   *)
(* after a non-final chunk, no event is yielded any more: no non-final     *)
(* chunk, no final chunk and no error event.                               *)
(***************************************************************************)
C6_StopAfterFalse ==
    [][CallbackReturned("false")' => events' = events]_vars

C6_Witness ==
    /\ Len(calls) = 2
    /\ calls[1].ret = "true"
    /\ calls[2].ret = "false"
    /\ ~calls[2].finished
    /\ Len(events) = 2
    /\ stream_pos < MaxFrags
    /\ pc = "done"

(***************************************************************************)
(* C7  With a callback supplied, every yielded event is followed by        *)
(* exactly one invocation of the callback with that event's text and       *)
(* finished flag before the next event is yielded or the run ends, also    *)
(* when the consumer stops iterating right after receiving an event.       *)
(***************************************************************************)
C7_CallbackPerEvent ==
    (on_chunk /\ pc \in {"loop", "done", "closed"}) =>
        /\ Len(calls) = Len(events)
        /\ \A i \in 1..Len(events) :
              /\ calls[i].chunk = events[i].chunk
              /\ calls[i].finished = events[i].finished

(***************************************************************************)
(* C8  Window trimming: when the list after the system-prompt step has     *)
(* more than 21 entries, the request consists of exactly all its           *)
(* system-role messages and its last 20 non-system messages, each group in *)
(* its original relative order; 1 system and 25 non-system messages give a *)
(* request of exactly 21 messages; a list of at most 21 entries is sent    *)
(* unchanged.                                                              *)
(***************************************************************************)
C8_WindowTrimming ==
    Sent =>
        LET sys == { i \in 1..Len(Stepped) : Stepped[i].role = "system" }
            non == (1..Len(Stepped)) \ sys
            \* the non-system positions followed by fewer than 20 others
            kept == { i \in non :
                        Cardinality({ j \in non : j > i }) < RecentCount }
            Same(a, b) == (a.role = "system") = (b.role = "system")
        IN  IF Len(Stepped) > WindowLimit
            THEN /\ Len(request) = Cardinality(sys) + Cardinality(kept)
                 /\ Cardinality(kept) <= RecentCount
                 /\ (Cardinality(non) >= RecentCount
                       => Cardinality(kept) = RecentCount)
                 /\ { request[k] : k \in 1..Len(request) }
                       = { Stepped[i] : i \in sys \cup kept }
                 /\ \A k, l \in 1..Len(request) :
                       (k < l /\ Same(request[k], request[l]))
                          => request[k].content < request[l].content
                 /\ (Cardinality(sys) = 1 /\ Cardinality(non) = 25
                       => Len(request) = 21)
            ELSE request = Stepped

C8_Witness ==
    /\ Sent
    /\ Len(messages) = 26
    /\ Count(messages, IsSystem) = 1
    /\ messages[3].role = "system"
    /\ Len(request) = 21
    /\ request[1] = messages[3]
    /\ request[2] = messages[7]

(***************************************************************************)
(* C9  For every input list, of any length and any mix of roles, the       *)
(* request sent to the completion API contains at most 21 messages.        *)
(***************************************************************************)
C9_AtMost21 ==
    Sent => Len(request) <= WindowLimit

(***************************************************************************)
(* C10  The request always contains a system-role message: if the input    *)
(* has none, the fixed system instruction is its first message and its     *)
(* only system message; if the input has some, the system messages of the  *)
(* request are exactly those of the input; the caller's list is never      *)
(* changed.                                                                *)
(***************************************************************************)
C10_SystemPrompt ==
    /\ [](Sent =>
            /\ \E k \in 1..Len(request) : request[k].role = "system"
            /\ IF \E i \in 1..Len(messages) : messages[i].role = "system"
               THEN SelectSeq(request, IsSystem) = SelectSeq(messages, IsSystem)
               ELSE /\ request[1] = SYSTEM_PROMPT
                    /\ Count(request, IsSystem) = 1)
    /\ [][messages' = messages]_vars

C10_Witness ==
    /\ Sent
    /\ Len(messages) = 25
    /\ Count(messages, IsSystem) = 0
    /\ request[1] = SYSTEM_PROMPT
    /\ Len(request) = 21

(***************************************************************************)
(* Helpers of the properties of the message store                          *)
(***************************************************************************)
\* the step is a call of the operation called name
StoreStep(name) ==
    /\ last_op'.name = name
    /\ << table, next_id, last_op, session >> # << table', next_id', last_op', session' >>

Ids(tbl) == { tbl[i].id : i \in 1..Len(tbl) }

NonEmptyString(arg) == arg.is_str /\ arg.truthy

\* C14: add_message with an empty or non-string role or content fails with a
\* validation error and leaves the stored messages unchanged; with both
\* non-empty strings it never fails validation, and when it returns it has
\* stored exactly one new record and returns its id, role, content and
\* timestamp.
C14_AddMessage ==
    [][StoreStep("add_message") =>
        LET a == last_op'.args
            ok == NonEmptyString(a.role) /\ NonEmptyString(a.content)
        IN  /\ ~ok => /\ last_op'.outcome = "validation_error"
                      /\ table' = table
            /\ ok => last_op'.outcome \in {"ok", "storage_error"}
            /\ last_op'.outcome = "ok" =>
                 /\ Len(last_op'.rows) = 1
                 /\ table' = Append(table, last_op'.rows[1])
                 /\ last_op'.rows[1].id \notin Ids(table)
                 /\ last_op'.rows[1].role = LowerRole(a.role.val)
                 /\ last_op'.rows[1].content = a.content.val]_vars

C14_Witness ==
    /\ last_op.name = "add_message"
    /\ last_op.outcome = "validation_error"
    /\ ~last_op.args.role.is_str
    /\ \E i \in 1..Len(table) : table[i].role = "user"

IsPrefix(s, t) == Len(s) <= Len(t) /\ SubSeq(t, 1, Len(s)) = s

\* a call get_all_messages(limit=None, current_conversation_only=False) that
\* returned
UnscopedQuery ==
    /\ last_op.name = "get_all_messages"
    /\ last_op.outcome = "ok"
    /\ last_op.args = NoArgs

\* C17: append-only log.  Every step other than clear_chat_history keeps
\* every stored message, with its id, role, content and timestamp, and only
\* appends; ids are unique and strictly increasing in append order; and a
\* query with current_conversation_only=False sees every stored message,
\* those before a separator included.
C17_AppendOnly ==
    /\ [][~StoreStep("clear_chat_history") => IsPrefix(table, table')]_vars
    /\ [](\A i, j \in 1..Len(table) : i < j => table[i].id < table[j].id)
    /\ [](UnscopedQuery =>
            /\ last_op.total = Len(table)
            /\ { last_op.rows[i] : i \in 1..Len(last_op.rows) } = RowsOf(table))

C17_Witness ==
    /\ UnscopedQuery
    /\ Len(table) = 3
    /\ IsSeparator(table[2])
    /\ \E i \in 1..Len(last_op.rows) : last_op.rows[i] = table[1]

\* C18: every operation of the store surfaces a storage failure as a storage
\* error: none of them returns normally when the session operation failed.
C18_StorageErrorSurfaces ==
    last_op.fail # "none" => last_op.outcome = "storage_error"

\* a call get_all_messages(limit=None, current_conversation_only=True) that
\* returned
ScopedQuery ==
    /\ last_op.name = "get_all_messages"
    /\ last_op.outcome = "ok"
    /\ last_op.args = [NoArgs EXCEPT !.current_only = TRUE]

\* the greatest id of a separator, 0 if there is none
GreatestSeparatorId(tbl) ==
    LET ids == { r.id : r \in { r \in RowsOf(tbl) : IsSeparator(r) } }
    IN  IF ids = {} THEN 0 ELSE CHOOSE i \in ids : \A j \in ids : j <= i

ReturnedRows == { last_op.rows[i] : i \in 1..Len(last_op.rows) }

\* C19: with current_conversation_only=True the query returns exactly the
\* messages whose id is at least the greatest id of a separator (all the
\* messages if there is none), equal timestamps included.
C19_GreatestSeparator ==
    ScopedQuery =>
        ReturnedRows =
            { r \in RowsOf(table) : r.id >= GreatestSeparatorId(table) }

\* C15: once a separator is stored, a query with
\* current_conversation_only=True returns no message that was appended
\* before the latest separator.
C15_ExcludesEarlier ==
    (/\ last_op.name = "get_all_messages"
     /\ last_op.outcome = "ok"
     /\ last_op.args.current_only)
        => \A r \in ReturnedRows :
              ~IsSeparator(r) => r.id > GreatestSeparatorId(table)

LowerText(t) == [i \in 1..Len(t) |-> LowerChar(t[i])]

\* text contains part, letter case ignored
ContainsIgnoringCase(text, part) ==
    \E i \in 0..(Len(text) - Len(part)) :
        SubSeq(LowerText(text), i + 1, i + Len(part)) = LowerText(part)

\* the stored messages a query with arguments q is to select
Selected(q) ==
    { r \in RowsOf(table) :
        /\ q.current_only => r.id >= GreatestSeparatorId(table)
        /\ q.search # << >> => ContainsIgnoringCase(r.content, q.search)
        /\ q.filter # "" => r.role = LowerRole(q.filter) }

\* C16: get_all_messages returns (page, total) where total is the number of
\* stored messages in the conversation scope that contain the search text,
\* letter case ignored, and have the role asked for, and page is the slice
\* [offset, offset + limit) of these messages by timestamp descending; after
\* user "Hi" then assistant "Hello" on an empty store, a query with limit 2
\* returns [Hello, Hi] and total 2.
C16_PageAndTotal ==
    (last_op.name = "get_all_messages" /\ last_op.outcome = "ok") =>
        LET q == last_op.args
        IN  /\ last_op.total = Cardinality(Selected(q))
            /\ q.limit > 0 =>
                 \E o \in Orders(Selected(q)) :
                    last_op.rows =
                        SubSeq(o, q.offset + 1, Min(Len(o), q.offset + q.limit))
            /\ (/\ q = [NoArgs EXCEPT !.limit = 2]
                /\ Len(table) = 2
                /\ table[1].role = "user"
                /\ table[2].role = "assistant")
                 => /\ last_op.rows = << table[2], table[1] >>
                    /\ last_op.total = 2

Positions(s, x) == { i \in 1..Len(s) : s[i] = x }

\* C20: every operation that uses get_db opens its session once, commits it
\* if the body finished without exception, rolls it back and re-raises if
\* the body failed, and closes it in every case, after which it does nothing
\* more with the session: no session stays open.
C20_SessionDiscipline ==
    session # << >> =>
        /\ Positions(session, "open") = {1}
        /\ Cardinality(Positions(session, "close")) = 1
        /\ \A i \in 1..Len(session) :
              (\E c \in Positions(session, "close") : i > c)
                  => session[i] = "raise"
        /\ last_op.fail = "none" =>
              /\ session[Len(session)] = "close"
              /\ session[Len(session) - 1] = "commit"
              /\ Positions(session, "rollback") = {}
        /\ last_op.fail = "body" =>
              /\ session[Len(session)] = "raise"
              /\ session[Len(session) - 1] = "close"
              /\ session[Len(session) - 2] = "rollback"
              /\ Positions(session, "commit") = {}

C20_Witness ==
    /\ last_op.name = "add_message"
    /\ last_op.fail = "body"
    /\ "close" \in { session[i] : i \in 1..Len(session) }
    /\ table # << >>

(***************************************************************************)
(* Helpers of the properties of ask and process_stream                     *)
(***************************************************************************)
\* the consumer received an error event
SawErrorEvent == \E i \in 1..seen : events[i].error

Answered(a) == \E i \in 1..Len(prompts) : prompts[i].input = a

AssistantStored == \E i \in 1..Len(table) : table[i].role = "assistant"

\* C11: when the stream yielded an error event, or the user answered 'q' at
\* the pause, or interrupted with Ctrl+C, ask stores no assistant message,
\* chunks received before that or not.
C11_NoPartialStored ==
    (SawErrorEvent \/ Answered("q") \/ ps_result.meta = "interrupted")
        => ~AssistantStored

\* the chunk texts of the events the loop has consumed
Consumed == [i \in 1..seen |-> events[i].chunk]

\* C12: after the answer 'q' process_stream consumes no further chunk and
\* returns the concatenation of the chunks consumed so far with metadata
\* that mark the result as interrupted.
C12_QuitMarkedInterrupted ==
    Answered("q") =>
        /\ ps_result.returned
        /\ seen = prompts[Len(prompts)].after
        /\ ps_result.response = Join(Consumed)
        /\ ps_result.meta = "interrupted"

\* the loop receives a chunk event
ChunkReceived == seen' > seen /\ ~events[seen'].error

\* the loop blocks on the prompt
Prompted == Len(prompts') = Len(prompts) + 1

\* the texts received after the last confirmation, the n-th event included
UnconfirmedRun(n) ==
    LET from == IF prompts = << >> THEN 0 ELSE prompts[Len(prompts)].after
    IN  [i \in 1..(n - from) |-> events[from + i].chunk]

\* the pause is due after the chunk just received
PauseDue ==
    /\ ~events[seen'].finished
    /\ confirm_continue
    /\ WordCount(Join(UnconfirmedRun(seen'))) > PauseFactor * chunk_size

\* the prompt just shown was answered with a line
AnsweredLine ==
    /\ Prompted
    /\ prompts'[Len(prompts')].input \notin {KeyboardInterrupt, EndOfInput}

Continues == ask_pc' = "stream" /\ current_chunk' = << >>

\* C13: process_stream blocks on the prompt after a chunk if and only if the
\* chunk is not final, confirm_continue is set and the text received since
\* the last confirmation has more than 3 times the chunk size words; any
\* answer other than 'q' empties the unconfirmed run and the loop goes on;
\* no prompt follows the final chunk.
C13_PauseAndContinue ==
    /\ [][ChunkReceived => (Prompted <=> PauseDue)]_vars
    /\ [][(AnsweredLine /\ prompts'[Len(prompts')].input # "q")
            => Continues]_vars
    /\ [](\A i \in 1..Len(prompts) : ~events[prompts[i].after].finished)

\* C13 amended: the answer is compared in lower case, so 'Q' quits as 'q'
\* does; any other answer empties the unconfirmed run and the loop goes on.
C13_PauseAndContinueLower ==
    /\ [][ChunkReceived => (Prompted <=> PauseDue)]_vars
    /\ [][AnsweredLine =>
            IF LowerInput(prompts'[Len(prompts')].input) = "q"
            THEN ask_pc' = "returned"
            ELSE Continues]_vars
    /\ [](\A i \in 1..Len(prompts) : ~events[prompts[i].after].finished)

C13_Witness ==
    /\ chunk_size = DefaultChunkSize
    /\ Answered("n")
    /\ seen > prompts[1].after
    /\ events[seen].finished

\* C22: every event that is not the error event carries the usage estimate
\* floor(len(text) / 4) of its own text, as tokens and as total_tokens, and
\* the error event carries 0.
C22_UsageEstimate ==
    \A i \in 1..Len(events) :
        LET ev == events[i]
        IN  /\ ev.total_tokens = ev.tokens
            /\ IF ev.error
               THEN ev.tokens = 0
               ELSE /\ TokenDivisor * ev.tokens <= Len(ev.chunk)
                    /\ Len(ev.chunk) < TokenDivisor * (ev.tokens + 1)

C22_Witness ==
    \E i \in 1..Len(events) :
        /\ ~events[i].error
        /\ Len(events[i].chunk) = TokenDivisor + 1
        /\ events[i].tokens = 1
        /\ \E j \in 1..Len(events) : events[j].error

Yielded == Join(EventTexts(events))

FinalYielded == \E i \in 1..Len(events) : events[i].finished /\ ~events[i].error

\* C26: at every point of every run the text yielded so far is a prefix of
\* the text received so far, the text received and not yet yielded is
\* exactly the buffer, and between fragments the words counted in the buffer
\* are fewer than the chunk size.
C26_PrefixInvariant ==
    /\ IsPrefix(Yielded, Join(received))
    /\ Yielded \o Join(buffer) = Join(received)
    /\ pc = "loop" =>
          /\ word_count = SumWords(buffer)
          /\ word_count < chunk_size

\* C26 amended: the buffer is the text not yet yielded until the final chunk
\* is yielded; the final chunk leaves the buffer as it was, so from then on
\* everything received has been yielded and the buffer still holds the text
\* of the final chunk.
C26_PrefixUntilFinal ==
    /\ IsPrefix(Yielded, Join(received))
    /\ IF FinalYielded
       THEN /\ Yielded = Join(received)
            /\ Join(buffer) = events[Len(events)].chunk
                 \/ events[Len(events)].error
       ELSE Yielded \o Join(buffer) = Join(received)
    /\ pc = "loop" =>
          /\ word_count = SumWords(buffer)
          /\ word_count < chunk_size

C26_Witness ==
    /\ api_raised
    /\ buffer # << >>
    /\ Len(events) = 2
    /\ Yielded # << >>
    /\ Yielded # Join(received)

\* a completion request has been made
Requested == request # << >>

\* C21: every request the client module makes, by stream_response, by
\* get_chat_response or by stream_chat_response, is windowed: it has a
\* system message and at most the last 20 non-system messages.
C21_WindowingEverywhere ==
    Requested =>
        /\ \E k \in 1..Len(request) : request[k].role = "system"
        /\ Cardinality({ k \in 1..Len(request) : request[k].role # "system" })
              <= RecentCount

\* ask has made its completion request
AskSent == ask_pc = "stream" /\ pc # "start"

\* a stored record, as a message of the API
AsApiMessage(row) ==
    [role |-> IF row.role = "user" THEN "user" ELSE "assistant",
     content |-> row.content]

\* C23: the list ask hands to the streamer is in chronological order,
\* oldest first, and its last element is the question just stored.
C23_Chronological ==
    AskSent =>
        LET n == Len(messages)
        IN  /\ n >= 1
            /\ n <= Len(table)
            /\ messages =
                 [i \in 1..n |-> AsApiMessage(table[Len(table) - n + i])]

\* C24: the request built by ask holds no separator marker, and its only
\* system-role message is the fixed system instruction.
C24_NoSeparatorSent ==
    AskSent =>
        \A k \in 1..Len(request) :
            IF request[k].role = "system"
            THEN k = 1 /\ request[k].content = 0
            ELSE request[k].content = << >>
                 \/ Head(request[k].content) # SepPrefix

\* the question of ask is the first record of the store
UserStored == Len(table) >= 1 /\ table[1].role = "user"

\* ask ended after a stream error, a 'q' answer or an interruption
AskCutShort ==
    /\ ask_pc \in {"done", "exit1"}
    /\ ps_result.returned
    /\ (SawErrorEvent \/ Answered("q") \/ ps_result.meta = "interrupted")

\* C25: the question is committed before the completion request is issued
\* and no step of ask removes or changes a stored record; after a stream
\* error or an interruption the store holds the question with no assistant
\* message after it.
C25_UserMessageKept ==
    /\ []((ask_pc \in {"stream", "returned"}) => UserStored)
    /\ [][\A i \in 1..Len(table) :
             i <= Len(table') /\ table'[i] = table[i]]_vars
    /\ [](AskCutShort => (UserStored /\ Len(table) = 1))

\* C27: the interactive session keeps prompting after a question has been
\* processed, whether ask succeeded or failed: the processing of a question
\* never ends the session, and no session ends by the exit of the ask
\* command.
C27_SessionContinues ==
    /\ [][loop_pc = "asking" => loop_pc' # "ended"]_vars
    /\ [](loop_pc = "ended" => loop_end # "system_exit")
====
